---- MODULE Spec2Model ----
(***************************************************************************)
(* Model of hf_agent_cert: the URL detector and the content assembler of   *)
(* multimodal_content_handler.py and the three-node pipeline of agent.py.  *)
(* Python strings are sequences of one-character strings.                  *)
(***************************************************************************)
EXTENDS Integers, Sequences, FiniteSets, TLC

VARIABLES
    utext,          \* extract_urls: the argument `text` (a Python value)
    upc,            \* extract_urls: "idle", "call" before the call, "returned" after it
    umatches,       \* extract_urls: the list matches
    uresult,        \* extract_urls: the returned list
    bpc,            \* build_multimodal_content: "idle", "call", "download", "upload", "returned"
    bargs,          \* build_multimodal_content: text, task_id, file_name, detected_urls
    content_parts,  \* build_multimodal_content: the list content_parts
    response,       \* _create_file_part: the status of the downloaded response
    pc,             \* process_question: "idle" or the graph node that runs
    run,            \* the number of process_question calls made so far
    state,          \* the AgentState of the running graph
    attempt,        \* tenacity: the attempt number of _generate_content_with_retry
    files,          \* _cleanup_files: the listed files not yet iterated over
    result,         \* what the last process_question call gave its caller
    store,          \* the files held by the remote file service
    calls           \* the collaborator calls of the current run, in order

uvars == <<utext, upc, umatches, uresult>>

bvars == <<bpc, bargs, content_parts, response>>

pvars == <<pc, run, state, attempt, files, result>>

vars == <<utext, upc, umatches, uresult, bpc, bargs, content_parts, response,
          pc, run, state, attempt, files, result, store, calls>>

(***************************************************************************)
(* Python values: None and str.                                            *)
(***************************************************************************)
NoneVal == [t |-> "none"]

Str(s) == [t |-> "str", v |-> s]

List(l) == [t |-> "list", v |-> l]

\* bool(x) of a str, a list or None: None and the empty ones are falsy
Truthy(x) == x.t \in {"str", "list"} /\ Len(x.v) > 0

\* str(x): a str is returned as it is, None becomes the text "None"
ToStr(x) == IF x.t = "none" THEN <<"N", "o", "n", "e">> ELSE x.v

Range(s) == {s[i] : i \in 1..Len(s)}

StartsWith(s, p) == Len(s) >= Len(p) /\ SubSeq(s, 1, Len(p)) = p

(***************************************************************************)
(* Character classes of URL_PATTERN.                                       *)
(***************************************************************************)
LowerLetters ==
    <<"a", "b", "c", "d", "e", "f", "g", "h", "i", "j", "k", "l", "m",
      "n", "o", "p", "q", "r", "s", "t", "u", "v", "w", "x", "y", "z">>

UpperLetters ==
    <<"A", "B", "C", "D", "E", "F", "G", "H", "I", "J", "K", "L", "M",
      "N", "O", "P", "Q", "R", "S", "T", "U", "V", "W", "X", "Y", "Z">>

Digits == {"0", "1", "2", "3", "4", "5", "6", "7", "8", "9"}

\* \s
Whitespace == {" ", "\t", "\n", "\r"}

\* the characters excluded by [^\s<>"{}|\\^`\[\]] besides whitespace
\* (the grave accent is written "grave")
Excluded == {"<", ">", "\"", "{", "}", "|", "\\", "^", "grave", "[", "]"}

\* [a-zA-Z]
Letters == Range(LowerLetters) \cup Range(UpperLetters)

IsLetter(c) == c \in Letters

\* [^\s<>"{}|\\^`\[\]]
IsUrlChar(c) == c \notin Whitespace /\ c \notin Excluded

\* [\w\-]
IsLabelChar(c) == IsLetter(c) \/ c \in Digits \/ c = "_" \/ c = "-"

\* the lower-case letter of each upper-case letter
LowerOf ==
    [c \in Range(UpperLetters) |->
        LowerLetters[CHOOSE k \in 1..Len(UpperLetters) : UpperLetters[k] = c]]

\* str.lower() of one character
LowerChar(c) == IF c \in DOMAIN LowerOf THEN LowerOf[c] ELSE c

Lower(s) == [i \in 1..Len(s) |-> LowerChar(s[i])]

(***************************************************************************)
(* Matching.  Positions are 1-based; a match function returns the position *)
(* after the last matched character, or 0 when there is no match.          *)
(***************************************************************************)
NoMatch == 0

\* a literal at position i, under re.IGNORECASE
LitAt(s, i, lit) ==
    IF /\ i + Len(lit) - 1 <= Len(s)
       /\ \A k \in 1..Len(lit) : LowerChar(s[i + k - 1]) = lit[k]
    THEN i + Len(lit)
    ELSE NoMatch

\* greedy [^\s<>"{}|\\^`\[\]]* from position i: the position after the run
RECURSIVE UrlCharRun(_, _)
UrlCharRun(s, i) ==
    IF i <= Len(s) /\ IsUrlChar(s[i]) THEN UrlCharRun(s, i + 1) ELSE i

\* greedy [\w\-]* from position i
RECURSIVE LabelRun(_, _)
LabelRun(s, i) ==
    IF i <= Len(s) /\ IsLabelChar(s[i]) THEN LabelRun(s, i + 1) ELSE i

\* greedy [a-zA-Z]* from position i
RECURSIVE LetterRun(_, _)
LetterRun(s, i) ==
    IF i <= Len(s) /\ IsLetter(s[i]) THEN LetterRun(s, i + 1) ELSE i

\* [^\s<>"{}|\\^`\[\]]+ at position i
UrlChars1(s, i) == LET e == UrlCharRun(s, i) IN IF e > i THEN e ELSE NoMatch

\* (?:\.[^\s<>"{}|\\^`\[\]]+)* at position i, greedy
RECURSIVE DotGroups(_, _)
DotGroups(s, i) ==
    LET e == UrlChars1(s, i + 1)
    IN  IF i <= Len(s) /\ s[i] = "." /\ e # NoMatch THEN DotGroups(s, e) ELSE i

\* (?:https?|ftp):\/\/|www\.
SchemeOrWww(s, i) ==
    LET https == LitAt(s, i, <<"h", "t", "t", "p", "s", ":", "/", "/">>)
        http == LitAt(s, i, <<"h", "t", "t", "p", ":", "/", "/">>)
        ftp == LitAt(s, i, <<"f", "t", "p", ":", "/", "/">>)
    IN  IF https # NoMatch THEN https
        ELSE IF http # NoMatch THEN http
        ELSE IF ftp # NoMatch THEN ftp
        ELSE LitAt(s, i, <<"w", "w", "w", ".">>)

\* first alternative: (?:(?:https?|ftp):\/\/|www\.)[^...]+(?:\.[^...]+)*
AltScheme(s, i) ==
    LET p == SchemeOrWww(s, i)
        e == UrlChars1(s, p)
    IN  IF p = NoMatch THEN NoMatch
        ELSE IF e = NoMatch THEN NoMatch
        ELSE DotGroups(s, e)

\* one [\w\-]+\. at position i
LabelDot(s, i) ==
    LET e == LabelRun(s, i)
    IN  IF e > i /\ e <= Len(s) /\ s[e] = "." THEN e + 1 ELSE NoMatch

\* a top-level domain of any length, [a-zA-Z]* in place of [a-zA-Z]{2,}
TldAndPathAnyLength(s, i) ==
    LET e == LetterRun(s, i)
    IN  IF e <= Len(s) /\ s[e] = "/" THEN UrlCharRun(s, e + 1) ELSE e

\* [a-zA-Z]{2,}(?:\/[^...]*)? at position i
TldAndPath(s, i) ==
    LET e == LetterRun(s, i)
    IN  IF e - i < 2 THEN NoMatch
        ELSE IF e <= Len(s) /\ s[e] = "/" THEN UrlCharRun(s, e + 1)
        ELSE e

\* the rest of the second alternative after one label: a further label is
\* tried first (the group is greedy), the top-level domain on backtracking
RECURSIVE DomainRest(_, _)
DomainRest(s, i) ==
    LET p == LabelDot(s, i)
        more == DomainRest(s, p)
    IN  IF p # NoMatch /\ more # NoMatch THEN more ELSE TldAndPath(s, i)

\* second alternative: (?:[\w\-]+\.)+[a-zA-Z]{2,}(?:\/[^...]*)?
AltDomain(s, i) ==
    LET p == LabelDot(s, i) IN IF p = NoMatch THEN NoMatch ELSE DomainRest(s, p)

\* third alternative: file:\/\/[^...]+
AltFile(s, i) ==
    LET p == LitAt(s, i, <<"f", "i", "l", "e", ":", "/", "/">>)
    IN  IF p = NoMatch THEN NoMatch ELSE UrlChars1(s, p)

\* fourth alternative: data:[^...]+
AltData(s, i) ==
    LET p == LitAt(s, i, <<"d", "a", "t", "a", ":">>)
    IN  IF p = NoMatch THEN NoMatch ELSE UrlChars1(s, p)

\* URL_PATTERN at position i: the first alternative that matches wins
URL_PATTERN(s, i) ==
    LET a1 == AltScheme(s, i)
        a2 == AltDomain(s, i)
        a3 == AltFile(s, i)
    IN  IF a1 # NoMatch THEN a1
        ELSE IF a2 # NoMatch THEN a2
        ELSE IF a3 # NoMatch THEN a3
        ELSE AltData(s, i)

\* URL_PATTERN.findall(text): the non-overlapping matches, left to right
RECURSIVE FindAllFrom(_, _)
FindAllFrom(s, i) ==
    LET e == URL_PATTERN(s, i)
    IN  IF i > Len(s) THEN <<>>
        ELSE IF e # NoMatch THEN <<SubSeq(s, i, e - 1)>> \o FindAllFrom(s, e)
        ELSE FindAllFrom(s, i + 1)

FindAll(s) == FindAllFrom(s, 1)

(***************************************************************************)
(* extract_urls: normalisation and validation of one match.                *)
(***************************************************************************)
\* str.strip(): leading and trailing whitespace removed
RECURSIVE LStrip(_)
LStrip(s) == IF Len(s) > 0 /\ s[1] \in Whitespace THEN LStrip(Tail(s)) ELSE s

RECURSIVE RStrip(_)
RStrip(s) ==
    IF Len(s) > 0 /\ s[Len(s)] \in Whitespace
    THEN RStrip(SubSeq(s, 1, Len(s) - 1))
    ELSE s

Strip(s) == LStrip(RStrip(s))

\* [a-zA-Z\d+\-.] and the scheme_chars of urllib
IsSchemeChar(c) == IsLetter(c) \/ c \in Digits \/ c \in {"+", "-", "."}

\* the position of the first ":" from i, or 0 (str.find, 1-based)
RECURSIVE FindColon(_, _)
FindColon(s, i) ==
    IF i > Len(s) THEN 0
    ELSE IF s[i] = ":" THEN i
    ELSE FindColon(s, i + 1)

\* the position of the ":" that ends a scheme prefix of s, or 0
SchemeEnd(s) ==
    LET i == FindColon(s, 1)
    IN  IF i > 1 /\ IsLetter(s[1]) /\ \A k \in 1..(i - 1) : IsSchemeChar(s[k])
        THEN i
        ELSE 0

\* re.match(r'^[a-zA-Z][a-zA-Z\d+\-.]*:', url)
HasProtocol(url) == SchemeEnd(url) # 0

Https == <<"h", "t", "t", "p", "s", ":", "/", "/">>

\* "Add protocol if missing"
AddProtocol(url) ==
    IF HasProtocol(url) THEN url
    ELSE IF StartsWith(url, <<"w", "w", "w", ".">>) THEN Https \o url
    ELSE IF "." \in Range(url) /\ ~StartsWith(url, <<".">>) THEN Https \o url
    ELSE url

\* urlparse(url).scheme: the lower-cased scheme, <<>> when there is none
ParsedScheme(url) ==
    LET i == SchemeEnd(url) IN IF i = 0 THEN <<>> ELSE Lower(SubSeq(url, 1, i - 1))

\* what urlparse splits after the scheme and its ":"
AfterScheme(url) ==
    LET i == SchemeEnd(url) IN IF i = 0 THEN url ELSE SubSeq(url, i + 1, Len(url))

\* the end of the authority: the position of the first of "/", "?", "#"
RECURSIVE NetlocEnd(_, _)
NetlocEnd(s, i) ==
    IF i > Len(s) \/ s[i] \in {"/", "?", "#"} THEN i ELSE NetlocEnd(s, i + 1)

\* urlparse(url).netloc
ParsedNetloc(url) ==
    LET rest == AfterScheme(url)
    IN  IF StartsWith(rest, <<"/", "/">>)
        THEN SubSeq(rest, 3, NetlocEnd(rest, 3) - 1)
        ELSE <<>>

\* a non-ASCII character whose NFKC form holds "/" (U+2100, ACCOUNT OF)
AccountOf == "a/c"

\* urlparse raises ValueError: an authority whose NFKC form gains one of "/?#@:"
UrlparseRaises(url) == AccountOf \in Range(ParsedNetloc(url))

FileScheme == <<"f", "i", "l", "e">>

\* a validation that asks for a scheme only
ValidUrlSchemeOnly(url) == ~UrlparseRaises(url) /\ ParsedScheme(url) # <<>>

\* a validation that lets the scheme data pass without an authority, as file
ValidUrlOrData(url) ==
    /\ ~UrlparseRaises(url)
    /\ ParsedScheme(url) # <<>>
    /\ \/ ParsedNetloc(url) # <<>>
       \/ ParsedScheme(url) \in {FileScheme, <<"d", "a", "t", "a">>}

\* "Validate URL structure": the candidate is appended to urls
ValidUrl(url) ==
    /\ ~UrlparseRaises(url)
    /\ ParsedScheme(url) # <<>>
    /\ (ParsedNetloc(url) # <<>> \/ ParsedScheme(url) = FileScheme)

\* the loop over the matches: the list urls, in match order
RECURSIVE CollectUrls(_)
CollectUrls(matches) ==
    IF matches = <<>> THEN <<>>
    ELSE LET url == AddProtocol(Strip(Head(matches)))
         IN  IF ValidUrl(url) THEN <<url>> \o CollectUrls(Tail(matches))
             ELSE CollectUrls(Tail(matches))

\* a deduplication that takes URLs differing only in letter case for one
ListOfSetIgnoreCase(S) ==
    LET R == {u \in S : u = CHOOSE v \in S : Lower(v) = Lower(u)}
    IN  {f \in [1..Cardinality(R) -> R] : \A i, j \in 1..Cardinality(R) : f[i] = f[j] => i = j}

\* list(set(urls)): the distinct elements, in any order
ListOfSet(S) ==
    {f \in [1..Cardinality(S) -> S] : \A i, j \in 1..Cardinality(S) : f[i] = f[j] => i = j}

\* the list matches of extract_urls: empty when `not text` returns at once
FindMatches(text) == IF ~Truthy(text) THEN <<>> ELSE FindAll(text.v)

\* the lists extract_urls can return for the list matches
ReturnedLists(matches) == ListOfSet(Range(CollectUrls(matches)))

\* extract_urls(text): the lists it can return
extract_urls(text) == ReturnedLists(FindMatches(text))

(***************************************************************************)
(* Calls of extract_urls on bounded texts.                                 *)
(***************************************************************************)
MaxTokens == 4

\* the texts are made of tokens of one of four families
\* URLs with a scheme and www. hosts, paths, dots, and a character that makes
\* urlparse raise
Tokens ==
    { <<"h", "t", "t", "p", "s", ":", "/", "/">>,
      <<"w", "w", "w", ".">>,
      <<"a", ".", "i", "o">>,
      <<"/", "x">>,
      <<".">>,
      <<" ">>,
      <<AccountOf>> }

\* file: and data: URIs with and without an authority, beside a bare host
SchemeTokens ==
    { <<"f", "i", "l", "e", ":", "/", "/">>,
      <<"d", "a", "t", "a", ":">>,
      <<"a", ".", "i", "o">>,
      <<"/">>,
      <<"/", "x">>,
      <<" ">> }

\* hosts with and without scheme, with a path and a port
HostTokens ==
    { <<"h", "t", "t", "p", "s", ":", "/", "/">>,
      <<"w", "w", "w", ".">>,
      <<"a", ".", "i", "o">>,
      <<"/">>,
      <<" ">>,
      <<":", "8", "0">> }

\* one host as words of a text: with and without its scheme, in another
\* letter case, with a trailing slash; each word ends with a space
WordTokens ==
    { <<"h", "t", "t", "p", "s", ":", "/", "/", "a", ".", "i", "o", " ">>,
      <<"a", ".", "i", "o", " ">>,
      <<"A", ".", "i", "o", " ">>,
      <<"a", ".", "i", "o", "/", " ">> }

RECURSIVE Flatten(_)
Flatten(ts) == IF ts = <<>> THEN <<>> ELSE Head(ts) \o Flatten(Tail(ts))

\* the texts made of at most MaxTokens tokens of T
TextsOf(T) == {Flatten(ts) : ts \in UNION {[1..n -> T] : n \in 0..MaxTokens}}

Texts ==
    TextsOf(Tokens) \cup TextsOf(SchemeTokens) \cup TextsOf(HostTokens) \cup TextsOf(WordTokens)

(***************************************************************************)
(* build_multimodal_content and _create_file_part.                         *)
(***************************************************************************)
\* the content parts: types.Part(text=...), the uploaded File, and
\* types.Part(file_data=types.FileData(file_uri=...))
TextPart(s) == [kind |-> "text", value |-> s]

FilePart(f) == [kind |-> "file", value |-> f]

LinkPart(u) == [kind |-> "link", value |-> u]

\* one collaborator call: the operation, whether it returned, its argument
\* (a status, the contents given to the model or a file) and the text it returned
Call(op, ok, arg, text) == [op |-> op, ok |-> ok, arg |-> arg, text |-> text]

\* URL parts built in the reverse of the input order
process_urls_reversed(urls) == [i \in 1..Len(urls) |-> LinkPart(urls[Len(urls) + 1 - i])]

\* _process_urls(urls)
process_urls(urls) == [i \in 1..Len(urls) |-> LinkPart(urls[i])]

\* "Handle URLs detected in text" and the return of build_multimodal_content
UrlParts(detected_urls) ==
    IF Truthy(detected_urls) THEN process_urls(detected_urls.v) ELSE <<>>

\* "Handle file attachment from API": the guard of the call of _create_file_part
HasAttachment(task_id, file_name) == Truthy(task_id) /\ Truthy(file_name)

\* response.raise_for_status(): raises HTTPError for a 4xx or 5xx status
RaiseForStatus(status) == 400 <= status /\ status < 600

\* the statuses the file service answers with
Statuses == {200, 304, 404, 500}

\* the name the file service gives an uploaded file: unique, here the number
\* of the run that uploads it
UploadedName == run

NoResponse == [t |-> "none"]

NoArgs == [text |-> NoneVal, task_id |-> NoneVal, file_name |-> NoneVal,
           detected_urls |-> NoneVal]

\* the frame of build_multimodal_content is popped
BuildIdle ==
    /\ bpc = "idle"
    /\ bargs = NoArgs
    /\ content_parts = <<>>
    /\ response = NoResponse

\* build_multimodal_content returns content_parts after the URL parts
BuildReturn(parts) ==
    /\ content_parts' = parts \o UrlParts(bargs.detected_urls)
    /\ bpc' = "returned"
    /\ response' = NoResponse

\* build_multimodal_content up to the download of the attachment
BuildCall ==
    /\ bpc = "call"
    /\ IF HasAttachment(bargs.task_id, bargs.file_name)
       THEN /\ content_parts' = <<TextPart(ToStr(bargs.text))>>
            /\ bpc' = "download"
            /\ UNCHANGED response
       ELSE BuildReturn(<<TextPart(ToStr(bargs.text))>>)
    /\ UNCHANGED <<bargs, store, calls>>
    /\ UNCHANGED <<uvars, pvars>>

\* requests.get raises a RequestException: _create_file_part returns None
DownloadRaises ==
    /\ bpc = "download"
    /\ calls' = Append(calls, Call("download", FALSE, 0, NoneVal))
    /\ BuildReturn(content_parts)
    /\ UNCHANGED <<bargs, store>>
    /\ UNCHANGED <<uvars, pvars>>

\* requests.get returns a response; raise_for_status() decides
DownloadReturns(status) ==
    /\ bpc = "download"
    /\ calls' = Append(calls, Call("download", TRUE, status, NoneVal))
    /\ IF RaiseForStatus(status)
       THEN BuildReturn(content_parts)
       ELSE /\ response' = [t |-> "response", status |-> status]
            /\ bpc' = "upload"
            /\ UNCHANGED content_parts
    /\ UNCHANGED <<bargs, store>>
    /\ UNCHANGED <<uvars, pvars>>

\* files.upload returns the uploaded file, which becomes the second part
UploadReturns ==
    /\ bpc = "upload"
    /\ calls' = Append(calls, Call("upload", TRUE, UploadedName, NoneVal))
    /\ store' = store \cup {UploadedName}
    /\ BuildReturn(Append(content_parts, FilePart(UploadedName)))
    /\ UNCHANGED bargs
    /\ UNCHANGED <<uvars, pvars>>

\* files.upload raises: _create_file_part returns None
UploadRaises ==
    /\ bpc = "upload"
    /\ calls' = Append(calls, Call("upload", FALSE, UploadedName, NoneVal))
    /\ BuildReturn(content_parts)
    /\ UNCHANGED <<bargs, store>>
    /\ UNCHANGED <<uvars, pvars>>

(***************************************************************************)
(* process_question and the graph analyze -> agent -> cleanup -> END.      *)
(***************************************************************************)
MaxRuns == 3

\* dict.get(key, default)
DictGet(d, key, default) == IF key \in DOMAIN d THEN d[key] ELSE default

\* the question mappings process_question is called with
Questions ==
    { [question |-> Str(<<"h", "i">>)],
      [question |-> Str(<<"s", "e", "e", " ", "f">>),
       task_id |-> Str(<<"t", "1">>), file_name |-> Str(<<"f", ".", "p", "n", "g">>)],
      [question |-> Str(<<"a", ".", "i", "o", " ", "w", "w", "w", ".", "x">>),
       task_id |-> Str(<<"t", "2">>), file_name |-> Str(<<>>)],
      [task_id |-> Str(<<"t", "3">>), file_name |-> Str(<<"f", ".", "p", "n", "g">>)] }

\* response.text of the model: an answer, or None when the response has no text
ModelTexts == {Str(<<"4", "2">>), NoneVal}

RetryError == Str(<<"R", "e", "t", "r", "y", "E", "r", "r", "o", "r">>)

ListError == Str(<<"A", "P", "I", "E", "r", "r", "o", "r">>)

ErrorPrefix == <<"E", "r", "r", "o", "r", ":", " ">>

NoState == [t |-> "none"]

NoResult == [kind |-> "none", value |-> <<>>]

\* initial_state of process_question
InitialState(question_data) ==
    [question_text |-> DictGet(question_data, "question", Str(<<>>)),
     task_id |-> DictGet(question_data, "task_id", NoneVal),
     file_name |-> DictGet(question_data, "file_name", NoneVal),
     detected_urls |-> <<>>,
     multimodal_content_parts |-> <<>>,
     final_answer |-> Str(<<>>)]

\* a retry policy that allows a fourth attempt
StopAfterFourAttempts(n) == n >= 4

\* stop_after_attempt(3)
StopAfterAttempt(n) == n >= 3

\* an error string without the "Error: " prefix
ErrorStringBare(e) == ToStr(e)

\* f"Error: {str(e)}"
ErrorString(e) == ErrorPrefix \o ToStr(e)

\* an except clause that lets the exception go on to the caller
ExceptClauseReraises(e) == [kind |-> "raise", value |-> ToStr(e)]

\* the except clause of process_question
ExceptClause(e) == [kind |-> "return", value |-> ErrorString(e)]

\* an error edge that leads on to the cleanup node
RaiseGoesOnToCleanup(e) ==
    /\ result' = ExceptClause(e)
    /\ pc' = "cleanup"
    /\ UNCHANGED <<state, files>>

\* an exception leaves compiled_graph.invoke and process_question handles it
Raise(e) ==
    /\ result' = ExceptClause(e)
    /\ pc' = "idle"
    /\ state' = NoState
    /\ files' = <<>>

PipelineIdle ==
    /\ pc = "idle"
    /\ run = 0
    /\ state = NoState
    /\ attempt = 0
    /\ files = <<>>
    /\ result = NoResult

\* process_question up to the call of build_multimodal_content in _analyze_input
ProcessQuestion(question_data) ==
    /\ pc = "idle"
    /\ bpc = "idle"
    /\ run < MaxRuns
    /\ run' = run + 1
    /\ state' = InitialState(question_data)
    /\ \E detected_urls \in extract_urls(Str(ToStr(state'.question_text))) :
          bargs' = [text |-> Str(ToStr(state'.question_text)),
                    task_id |-> state'.task_id,
                    file_name |-> state'.file_name,
                    detected_urls |-> List(detected_urls)]
    /\ bpc' = "call"
    /\ pc' = "analyze"
    /\ calls' = <<>>
    /\ result' = NoResult
    /\ UNCHANGED <<content_parts, response, attempt, files, store>>
    /\ UNCHANGED uvars

\* a graph whose edge from analyze leads to cleanup, past the agent node
AnalyzeReturnSkipsAgent ==
    /\ pc = "analyze"
    /\ bpc = "returned"
    /\ state' = [state EXCEPT !.multimodal_content_parts = content_parts,
                              !.detected_urls = bargs.detected_urls.v]
    /\ pc' = "cleanup"
    /\ attempt' = 0
    /\ bpc' = "idle"
    /\ bargs' = NoArgs
    /\ content_parts' = <<>>
    /\ UNCHANGED <<response, run, files, result, store, calls>>
    /\ UNCHANGED uvars

\* _analyze_input returns; the edge analyze -> agent
AnalyzeReturn ==
    /\ pc = "analyze"
    /\ bpc = "returned"
    /\ state' = [state EXCEPT !.multimodal_content_parts = content_parts,
                              !.detected_urls = bargs.detected_urls.v]
    /\ pc' = "agent"
    /\ attempt' = 0
    /\ bpc' = "idle"
    /\ bargs' = NoArgs
    /\ content_parts' = <<>>
    /\ UNCHANGED <<response, run, files, result, store, calls>>
    /\ UNCHANGED uvars

\* a call that gives the model the text part alone
ContentsTextOnly(st) == SubSeq(st.multimodal_content_parts, 1, 1)

\* state.get("multimodal_content_parts"), the contents of every attempt
Contents(st) == st.multimodal_content_parts

\* generate_content returns: _call_agent sets final_answer; the edge agent -> cleanup
ModelReturns(text) ==
    /\ pc = "agent"
    /\ attempt' = attempt + 1
    /\ calls' = Append(calls, Call("model", TRUE, Contents(state), text))
    /\ state' = [state EXCEPT !.final_answer = text]
    /\ pc' = "cleanup"
    /\ UNCHANGED <<run, files, result, store>>
    /\ UNCHANGED <<uvars, bvars>>

\* generate_content raises: retried, or RetryError after the last attempt
ModelRaises ==
    /\ pc = "agent"
    /\ attempt' = attempt + 1
    /\ calls' = Append(calls, Call("model", FALSE, Contents(state), NoneVal))
    /\ IF StopAfterAttempt(attempt + 1)
       THEN Raise(RetryError)
       ELSE UNCHANGED <<pc, state, files, result>>
    /\ UNCHANGED <<run, store>>
    /\ UNCHANGED <<uvars, bvars>>

\* _cleanup_files: files.list() returns the stored files
ListReturns ==
    /\ pc = "cleanup"
    /\ calls' = Append(calls, Call("list", TRUE, 0, NoneVal))
    /\ files' \in ListOfSet(store)
    /\ pc' = "delete"
    /\ UNCHANGED <<run, state, attempt, result, store>>
    /\ UNCHANGED <<uvars, bvars>>

\* _cleanup_files: files.list() raises, outside the try of the loop
ListRaises ==
    /\ pc = "cleanup"
    /\ calls' = Append(calls, Call("list", FALSE, 0, NoneVal))
    /\ Raise(ListError)
    /\ UNCHANGED <<run, attempt, store>>
    /\ UNCHANGED <<uvars, bvars>>

\* one iteration of the loop: files.delete returns
DeleteReturns ==
    /\ pc = "delete"
    /\ files # <<>>
    /\ calls' = Append(calls, Call("delete", TRUE, Head(files), NoneVal))
    /\ store' = store \ {Head(files)}
    /\ files' = Tail(files)
    /\ UNCHANGED <<pc, run, state, attempt, result>>
    /\ UNCHANGED <<uvars, bvars>>

\* a loop that a raising files.delete ends: the files after it are left out
DeleteRaisesEndsLoop ==
    /\ pc = "delete"
    /\ files # <<>>
    /\ calls' = Append(calls, Call("delete", FALSE, Head(files), NoneVal))
    /\ files' = <<>>
    /\ UNCHANGED <<pc, run, state, attempt, result, store>>
    /\ UNCHANGED <<uvars, bvars>>

\* one iteration of the loop: files.delete raises and the except clause logs it
DeleteRaises ==
    /\ pc = "delete"
    /\ files # <<>>
    /\ calls' = Append(calls, Call("delete", FALSE, Head(files), NoneVal))
    /\ files' = Tail(files)
    /\ UNCHANGED <<pc, run, state, attempt, result, store>>
    /\ UNCHANGED <<uvars, bvars>>

\* print(files.list()) returns; the edge cleanup -> END; process_question
\* returns str(result.get("final_answer", ""))
PrintReturns ==
    /\ pc = "delete"
    /\ files = <<>>
    /\ calls' = Append(calls, Call("list", TRUE, 0, NoneVal))
    /\ result' = [kind |-> "return", value |-> ToStr(state.final_answer)]
    /\ pc' = "idle"
    /\ state' = NoState
    /\ UNCHANGED <<run, attempt, files, store>>
    /\ UNCHANGED <<uvars, bvars>>

\* print(files.list()) raises
PrintRaises ==
    /\ pc = "delete"
    /\ files = <<>>
    /\ calls' = Append(calls, Call("list", FALSE, 0, NoneVal))
    /\ Raise(ListError)
    /\ UNCHANGED <<run, attempt, store>>
    /\ UNCHANGED <<uvars, bvars>>

(***************************************************************************)
(* Specifications.                                                         *)
(***************************************************************************)
UrlIdle ==
    /\ utext = NoneVal
    /\ upc = "idle"
    /\ umatches = <<>>
    /\ uresult = <<>>

\* the agent after construction, the file service empty
Init ==
    /\ UrlIdle
    /\ BuildIdle
    /\ PipelineIdle
    /\ store = {}
    /\ calls = <<>>

Build ==
    \/ BuildCall
    \/ DownloadRaises
    \/ \E status \in Statuses : DownloadReturns(status)
    \/ UploadReturns
    \/ UploadRaises

Next ==
    \/ \E question_data \in Questions : ProcessQuestion(question_data)
    \/ Build
    \/ AnalyzeReturn
    \/ \E text \in ModelTexts : ModelReturns(text)
    \/ ModelRaises
    \/ ListReturns
    \/ ListRaises
    \/ DeleteReturns
    \/ DeleteRaises
    \/ PrintReturns
    \/ PrintRaises

Spec == Init /\ [][Next]_vars

\* extract_urls called on each bounded text
InitUrl ==
    /\ utext \in {NoneVal} \cup {Str(t) : t \in Texts}
    /\ upc = "call"
    /\ umatches = <<>>
    /\ uresult = <<>>
    /\ BuildIdle
    /\ PipelineIdle
    /\ store = {}
    /\ calls = <<>>

CallExtractUrls ==
    /\ upc = "call"
    /\ umatches' = FindMatches(utext)
    /\ uresult' \in ReturnedLists(umatches')
    /\ upc' = "returned"
    /\ UNCHANGED utext
    /\ UNCHANGED <<bvars, pvars, store, calls>>

NextUrl == CallExtractUrls

SpecUrl == InitUrl /\ [][NextUrl]_vars

\* build_multimodal_content called on each bounded argument list
MaxUrls == 2

UrlPool ==
    { <<"h", "t", "t", "p", "s", ":", "/", "/", "a", ".", "i", "o", "/", "p">>,
      <<"f", "i", "l", "e", ":", "/", "/", "/", "p">> }

UrlLists == UNION {[1..n -> UrlPool] : n \in 0..MaxUrls}

InitBuild ==
    /\ UrlIdle
    /\ bpc = "call"
    /\ bargs \in [text : {Str(<<>>), Str(<<"h", "i">>)},
                  task_id : {NoneVal, Str(<<>>), Str(<<"t", "1">>)},
                  file_name : {NoneVal, Str(<<>>), Str(<<"f", ".", "p", "n", "g">>)},
                  detected_urls : {NoneVal} \cup {List(l) : l \in UrlLists}]
    /\ content_parts = <<>>
    /\ response = NoResponse
    /\ PipelineIdle
    /\ store = {}
    /\ calls = <<>>

NextBuild == Build

SpecBuild == InitBuild /\ [][NextBuild]_vars

(***************************************************************************)
(* Properties of process_question (specification Spec).                    *)
(***************************************************************************)
\* the calls of one operation in the current run, in order
CallsOf(op) == SelectSeq(calls, LAMBDA c : c.op = op)

\* a process_question call has ended and its caller holds the outcome
RunEnded == pc = "idle" /\ run > 0

\* the first three model attempts of the run all raised
ThreeModelFailures ==
    /\ Len(CallsOf("model")) >= 3
    /\ \A i \in 1..3 : ~CallsOf("model")[i].ok

\* C1: whatever the question and whichever collaborator calls fail,
\* process_question returns a string, the model's answer or a string that
\* starts with "Error: ", and no exception reaches its caller.
C1_AlwaysReturnsString ==
    /\ result.kind # "raise"
    /\ RunEnded =>
          /\ result.kind = "return"
          /\ \/ StartsWith(result.value, ErrorPrefix)
             \/ \E i \in 1..Len(calls) :
                   /\ calls[i].op = "model"
                   /\ calls[i].ok
                   /\ result.value = ToStr(calls[i].text)

\* a run in which the download, a model attempt, a deletion and the last
\* listing failed, and which ended with an error string
C1_Witness ==
    /\ RunEnded
    /\ \E i \in 1..Len(calls) : calls[i].op = "download" /\ ~calls[i].ok
    /\ \E i \in 1..Len(calls) : calls[i].op = "model" /\ ~calls[i].ok
    /\ \E i \in 1..Len(calls) : calls[i].op = "delete" /\ ~calls[i].ok
    /\ ~calls[Len(calls)].ok
    /\ result = [kind |-> "return", value |-> ErrorPrefix \o ListError.v]

\* C2 (as claimed): in every run the cleanup step, the listing of the remote
\* files, has been executed when process_question returns.
C2_CleanupOnEveryPath == RunEnded => Len(CallsOf("list")) >= 1

\* C3 (as claimed): when the model returned the answer text A, process_question
\* returns A whichever cleanup operations fail.
C3_CleanupFailureKeepsAnswer ==
    RunEnded =>
        \A i \in 1..Len(calls) :
            (calls[i].op = "model" /\ calls[i].ok)
                => result = [kind |-> "return", value |-> ToStr(calls[i].text)]

\* C4: when the model call raises on three consecutive attempts,
\* process_question returns a string that begins with "Error:" and does not raise.
C4_RetryExhaustedReturnsError ==
    (RunEnded /\ ThreeModelFailures) =>
        /\ result.kind = "return"
        /\ StartsWith(result.value, <<"E", "r", "r", "o", "r", ":">>)

\* a run that ended after three failed model attempts
C4_Witness ==
    /\ RunEnded
    /\ ThreeModelFailures
    /\ result = [kind |-> "return", value |-> ErrorPrefix \o RetryError.v]

\* the parts of C5 that do not count the listings: one to three model calls,
\* a further one only after the one before raised, none after one returned,
\* and download, upload and each deletion at most once
C5_ModelAndFileCalls ==
    /\ Len(CallsOf("model")) <= 3
    /\ RunEnded => Len(CallsOf("model")) >= 1
    /\ \A i \in 2..Len(CallsOf("model")) : ~CallsOf("model")[i - 1].ok
    /\ Len(CallsOf("download")) <= 1
    /\ Len(CallsOf("upload")) <= 1
    /\ \A i, j \in 1..Len(CallsOf("delete")) :
          CallsOf("delete")[i].arg = CallsOf("delete")[j].arg => i = j

\* C5 (as claimed): the remote file listing too is attempted at most once per run.
C5_Original == C5_ModelAndFileCalls /\ Len(CallsOf("list")) <= 1

\* C5 (amended): the listing is attempted at most twice per run, the second
\* time only after the first returned and after every deletion of the run;
\* a listing that raised is not followed by another.
C5_CallCounts ==
    /\ C5_ModelAndFileCalls
    /\ Len(CallsOf("list")) <= 2
    /\ \A i \in 2..Len(CallsOf("list")) : CallsOf("list")[i - 1].ok
    /\ Len(CallsOf("list")) = 2 =>
          /\ calls[Len(calls)].op = "list"
          /\ \A i \in 1..Len(calls) :
                calls[i].op = "delete" =>
                    \E j \in 1..(i - 1) : calls[j].op = "list"

\* a run with a download, an upload, three model attempts of which the last
\* returned, two listings and two deletions between them
C5_Witness ==
    /\ RunEnded
    /\ Len(CallsOf("download")) = 1
    /\ Len(CallsOf("upload")) = 1
    /\ Len(CallsOf("model")) = 3
    /\ CallsOf("model")[3].ok
    /\ Len(CallsOf("list")) = 2
    /\ Len(CallsOf("delete")) = 2

\* C8 (as claimed): the remote files that exist because of an earlier question
\* are the same whatever question is processed after it: a file uploaded by an
\* earlier run is not removed while a later question is processed.
C8_NoSharedState == [][\A f \in store : f < run' => f \in store']_vars

\* the stages of the controller: Idle, Assembling, Invoking, CleaningUp
Stage(p) ==
    CASE p = "idle" -> "Idle"
      [] p = "analyze" -> "Assembling"
      [] p = "agent" -> "Invoking"
      [] p \in {"cleanup", "delete"} -> "CleaningUp"

\* the stage changes of a run that goes on, one stage after the other
ForwardEdges ==
    { <<"Idle", "Assembling">>, <<"Assembling", "Invoking">>, <<"Invoking", "CleaningUp">> }

\* the step makes a collaborator call, the last entry of calls'
MakesCall == Len(calls') = Len(calls) + 1

\* the step ends the run
EndsRun == pc # "idle" /\ pc' = "idle"

\* one step of the controller keeps the stage order
C14_Step ==
    /\ (Stage(pc') # Stage(pc) /\ ~EndsRun) => <<Stage(pc), Stage(pc')>> \in ForwardEdges
    /\ (EndsRun /\ calls'[Len(calls')].ok) =>
          /\ Stage(pc) = "CleaningUp"
          /\ result' = [kind |-> "return", value |-> ToStr(state.final_answer)]
    /\ (MakesCall /\ calls'[Len(calls')].op \in {"download", "upload"}) =>
          /\ Stage(pc) = "Assembling"
          /\ CallsOf("model") = <<>>
    /\ (MakesCall /\ calls'[Len(calls')].op = "model") =>
          /\ Stage(pc) = "Invoking"
          /\ bpc = "idle"
          /\ state.multimodal_content_parts # <<>>
          /\ CallsOf("list") = <<>> /\ CallsOf("delete") = <<>>
    /\ (MakesCall /\ calls'[Len(calls')].op \in {"list", "delete"}) =>
          /\ Stage(pc) = "CleaningUp"
          /\ \E i \in 1..Len(calls) : calls[i].op = "model" /\ calls[i].ok

\* C14: the stages of a run follow one another in the order Idle, Assembling,
\* Invoking, CleaningUp, Done: the model is called only after the assembly
\* has returned its parts, the listing and the deletions only after the model
\* call has returned, and a run ends normally only from CleaningUp.
C14_StrictStageOrder == [][C14_Step]_vars

\* a run that ended normally after a download, an upload, a failed and a
\* returned model attempt, a listing, a deletion and the last listing
C14_Witness ==
    /\ RunEnded
    /\ result = [kind |-> "return", value |-> <<"4", "2">>]
    /\ Len(calls) = 7
    /\ [i \in 1..7 |-> calls[i].op] =
          <<"download", "upload", "model", "model", "list", "delete", "list">>
    /\ [i \in 1..7 |-> calls[i].ok] = <<TRUE, TRUE, FALSE, TRUE, TRUE, TRUE, TRUE>>

\* C15: once the error of the Invoking stage is unhandled (the third model
\* attempt of the run has raised; no error of the Assembling stage is left
\* unhandled), the run is over at once: no listing and no deletion is made in
\* that run and process_question returns a string that starts with "Error: ".
C15_ErrorEndsRun ==
    ThreeModelFailures =>
        /\ pc = "idle"
        /\ state = NoState
        /\ result.kind = "return"
        /\ StartsWith(result.value, ErrorPrefix)
        /\ CallsOf("list") = <<>>
        /\ CallsOf("delete") = <<>>
        /\ calls[Len(calls)].op = "model"

\* a run that failed in Invoking after its file was uploaded and while a file
\* of an earlier run was stored: both files are still there
C15_Witness ==
    /\ RunEnded
    /\ ThreeModelFailures
    /\ \E i \in 1..Len(calls) : calls[i].op = "upload" /\ calls[i].ok
    /\ Cardinality(store) = 2
    /\ StartsWith(result.value, ErrorPrefix)

\* the uploads of the current run that returned a file
Uploaded == SelectSeq(calls, LAMBDA c : c.op = "upload" /\ c.ok)

\* the parts an assembly of the question of the running graph gives
AssembledOnce ==
    <<TextPart(ToStr(state.question_text))>>
        \o [i \in 1..Len(Uploaded) |-> FilePart(Uploaded[i].arg)]
        \o process_urls(state.detected_urls)

\* one step: an assembly is started only by the step that starts a run, and a
\* model attempt gets the parts of the one assembly of its run
C16_Step ==
    /\ (bpc # "call" /\ bpc' = "call") => (pc = "idle" /\ run' = run + 1)
    /\ (MakesCall /\ calls'[Len(calls')].op = "model") =>
          /\ calls'[Len(calls')].arg = AssembledOnce
          /\ \A i \in 1..Len(CallsOf("model")) :
                CallsOf("model")[i].arg = calls'[Len(calls')].arg
          /\ Len(Uploaded) <= 1
          /\ Len(CallsOf("upload")) <= 1
          /\ Len(CallsOf("download")) =
                IF HasAttachment(state.task_id, state.file_name) THEN 1 ELSE 0

\* C16: content assembly, and with it the download and the upload of the
\* attached file, runs once per process_question call, and every model
\* attempt of the run, retries included, receives the sequence it built.
C16_OneAssemblyPerRun == [][C16_Step]_vars

\* a run whose three model attempts, the last of which returned, all got the
\* text part and the uploaded file
C16_Witness ==
    /\ Len(CallsOf("model")) = 3
    /\ Len(CallsOf("model")[3].arg) >= 2
    /\ CallsOf("model")[3].arg[2].kind = "file"
    /\ CallsOf("model")[1].arg = CallsOf("model")[3].arg
    /\ CallsOf("model")[3].ok

\* the files whose deletion was attempted in the cleanup of the current run
Attempted == {CallsOf("delete")[i].arg : i \in 1..Len(CallsOf("delete"))}

\* the files the listing of the current run returned: the stored files and
\* the ones deleted since
Listed ==
    store \cup {CallsOf("delete")[i].arg :
                    i \in {k \in 1..Len(CallsOf("delete")) : CallsOf("delete")[k].ok}}

\* C17: in a cleanup whose listing returned, the deletion of every listed
\* file is attempted exactly once, whether the deletions before it returned
\* or raised: while the loop runs the listed
\* files are the ones attempted and the ones still to come, and when the loop
\* is over all of them have been attempted.
C17_DeleteFailureGoesOn ==
    (CallsOf("list") # <<>> /\ CallsOf("list")[1].ok) =>
        /\ \A i, j \in 1..Len(CallsOf("delete")) :
              CallsOf("delete")[i].arg = CallsOf("delete")[j].arg => i = j
        /\ Attempted \cup Range(files) = Listed
        /\ Attempted \cap Range(files) = {}
        /\ (pc = "idle" \/ Len(CallsOf("list")) = 2) => Attempted = Listed

\* a cleanup of two listed files ran to its end although the first deletion raised
C17_Witness ==
    /\ RunEnded
    /\ Len(CallsOf("list")) = 2
    /\ Len(CallsOf("delete")) = 2
    /\ ~CallsOf("delete")[1].ok
    /\ CallsOf("delete")[2].ok
    /\ Cardinality(store) = 1

(***************************************************************************)
(* Properties of build_multimodal_content (specification SpecBuild).       *)
(***************************************************************************)
\* a file reference, task id and file name, was supplied
FileSupplied ==
    /\ bargs.task_id \notin {NoneVal, Str(<<>>)}
    /\ bargs.file_name \notin {NoneVal, Str(<<>>)}

\* the fetch of the attachment succeeded: the file was uploaded
FetchSucceeded == \E i \in 1..Len(calls) : calls[i].op = "upload" /\ calls[i].ok

\* the URL list given to the call ([] when it was None)
GivenUrls == IF bargs.detected_urls = NoneVal THEN <<>> ELSE bargs.detected_urls.v

\* C6: build_multimodal_content returns one Text part with the literal text at
\* index 0, then one RemoteFile part if and only if a file reference was
\* supplied and its fetch succeeded, then one LinkReference part per URL in
\* input order; the length is 1 + 1 + N or 1 + N and never 0.
C6_PartsOrder ==
    bpc = "returned" =>
        LET hasFile == FileSupplied /\ FetchSucceeded
            first == IF hasFile THEN 2 ELSE 1
        IN  /\ Len(content_parts) = first + Len(GivenUrls)
            /\ content_parts[1] = [kind |-> "text", value |-> bargs.text.v]
            /\ hasFile <=> (\E i \in 1..Len(content_parts) : content_parts[i].kind = "file")
            /\ hasFile => content_parts[2].kind = "file"
            /\ \A k \in 1..Len(GivenUrls) :
                  content_parts[first + k] = [kind |-> "link", value |-> GivenUrls[k]]

\* a call with the empty text, a fetched file and two different URLs
C6_Witness ==
    /\ bpc = "returned"
    /\ bargs.text = Str(<<>>)
    /\ FetchSucceeded
    /\ Len(content_parts) = 4
    /\ content_parts[2].kind = "file"
    /\ content_parts[3] # content_parts[4]

\* materializing the supplied file failed: the download raised or answered
\* with a status outside 2xx, or the upload raised
MaterializeFailed ==
    \E i \in 1..Len(calls) :
        \/ calls[i].op = "download" /\ ~calls[i].ok
        \/ calls[i].op = "download" /\ calls[i].ok /\ ~(200 <= calls[i].arg /\ calls[i].arg < 300)
        \/ calls[i].op = "upload" /\ ~calls[i].ok

\* C7 (as claimed): when materializing the supplied file fails, the call
\* returns the Text part followed only by the LinkReference parts.
C7_FailedFetchOmitsFile ==
    (bpc = "returned" /\ FileSupplied /\ MaterializeFailed) =>
        content_parts = <<TextPart(bargs.text.v)>> \o process_urls(GivenUrls)

(***************************************************************************)
(* Properties of extract_urls (specification SpecUrl).                     *)
(***************************************************************************)
\* s holds u as a substring
Contains(s, u) == \E i \in 1..(Len(s) - Len(u) + 1) : SubSeq(s, i, i + Len(u) - 1) = u

\* valid absolute URLs of the form https://host/path
HttpsUrls == { <<"h", "t", "t", "p", "s", ":", "/", "/", "a", ".", "i", "o", "/", "x">> }

\* C9 (as claimed): a valid https://host/path URL embedded in any surrounding
\* text is an element of the list extract_urls returns, unchanged.
C9_EmbeddedUrlReturned ==
    (upc = "returned" /\ utext # NoneVal) =>
        \A u \in HttpsUrls : Contains(utext.v, u) => u \in Range(uresult)

\* C10: every string extract_urls returns has a scheme (so it is normalized:
\* adding a protocol leaves it as it is) and a network authority or the
\* scheme file.
C10_ReturnedUrlsValid ==
    upc = "returned" =>
        \A k \in 1..Len(uresult) :
            /\ ParsedScheme(uresult[k]) # <<>>
            /\ AddProtocol(uresult[k]) = uresult[k]
            /\ \/ ParsedNetloc(uresult[k]) # <<>>
               \/ ParsedScheme(uresult[k]) = <<"f", "i", "l", "e">>

\* a text with a file URL without authority and a host that got its scheme added
C10_Witness ==
    /\ upc = "returned"
    /\ utext # NoneVal
    /\ Len(uresult) = 2
    /\ \E k \in 1..2 : ParsedNetloc(uresult[k]) = <<>>
    /\ \E k \in 1..2 : ParsedNetloc(uresult[k]) # <<>>

\* the scheme prefixes the four shapes of URL_PATTERN recognize
SchemePrefixes ==
    { <<"h", "t", "t", "p", ":", "/", "/">>,
      <<"h", "t", "t", "p", "s", ":", "/", "/">>,
      <<"f", "t", "p", ":", "/", "/">>,
      <<"f", "i", "l", "e", ":", "/", "/">>,
      <<"d", "a", "t", "a", ":">> }

\* the raw match m starts with none of them, in any letter case
LacksScheme(m) == \A p \in SchemePrefixes : LitAt(m, 1, p) = NoMatch

\* C11 (as claimed): every raw match without a scheme prefix (it starts with
\* www. or holds a dot and does not start with one) is in the returned list
\* as https:// followed by the match, otherwise unchanged, unless the
\* validation discards that https:// form.
C11_SchemelessGetsHttps ==
    upc = "returned" =>
        LET matches == umatches
            returned == Range(uresult)
        IN  \A m \in Range(matches) :
                (LacksScheme(m) /\ ValidUrl(Https \o m)) => (Https \o m) \in returned

\* the candidates of the raw matches: stripped, with the protocol added
RECURSIVE Candidates(_)
Candidates(matches) ==
    IF matches = <<>> THEN <<>>
    ELSE <<AddProtocol(Strip(Head(matches)))>> \o Candidates(Tail(matches))

\* the number of positions of the returned list that hold the string u
Occurrences(u) == Cardinality({k \in 1..Len(uresult) : uresult[k] = u})

\* C12: the returned list holds every valid normalized URL of the text exactly
\* once and nothing else, so two occurrences are merged if and only if their
\* normalized strings are equal: a URL written with and without its scheme is
\* merged, URLs differing by a trailing slash or by letter case are not.
C12_ExactStringDedup ==
    upc = "returned" =>
        LET valid == {u \in Range(Candidates(umatches)) : ValidUrl(u)}
        IN  /\ \A u \in valid : Occurrences(u) = 1
            /\ \A k \in 1..Len(uresult) : uresult[k] \in valid
            /\ Len(uresult) = Cardinality(valid)

\* a text with one host four times: with and without scheme (merged), in
\* upper case and with a trailing slash (both kept apart)
C12_Witness ==
    /\ upc = "returned"
    /\ LET matches == umatches
           c == Candidates(matches)
       IN  /\ Len(matches) = 4
           /\ c[1] = c[2]
           /\ matches[1] # matches[2]
           /\ Lower(c[3]) = c[1]
           /\ c[4] = c[1] \o <<"/">>
    /\ Len(uresult) = 3

\* the literal lit stands somewhere in s, in any letter case
ContainsLit(s, lit) == \E i \in 1..Len(s) : LitAt(s, i, lit) # NoMatch

\* a host.tld shape stands somewhere in s: a word character, a dot, two letters
ContainsDottedName(s) ==
    \E i \in 1..(Len(s) - 3) :
        /\ IsLabelChar(s[i])
        /\ s[i + 1] = "."
        /\ IsLetter(s[i + 2])
        /\ IsLetter(s[i + 3])

\* s holds none of the four URL shapes: no scheme prefix, no www. and no host.tld
NoUrlLike(s) ==
    /\ \A p \in SchemePrefixes : ~ContainsLit(s, p)
    /\ ~ContainsLit(s, <<"w", "w", "w", ".">>)
    /\ ~ContainsDottedName(s)

\* C13: extract_urls returns the empty list for None, for the empty text and
\* for every text without a URL-like substring.
C13_EmptyForNoUrls ==
    upc = "returned" =>
        /\ utext = NoneVal => uresult = <<>>
        /\ utext = Str(<<>>) => uresult = <<>>
        /\ uresult # <<>> => ~NoUrlLike(utext.v)

\* a call that returned for a text of words, dots and slashes without a URL
C13_Witness ==
    /\ upc = "returned"
    /\ utext # NoneVal
    /\ Len(utext.v) >= 4
    /\ NoUrlLike(utext.v)
    /\ \E i \in 1..(Len(utext.v) - 1) : IsLabelChar(utext.v[i]) /\ utext.v[i + 1] = "."
    /\ uresult = <<>>

DataPrefix == <<"d", "a", "t", "a", ":">>

\* the schemes the claim allows in the output
UrlSchemes ==
    { <<"h", "t", "t", "p">>, <<"h", "t", "t", "p", "s">>, <<"f", "t", "p">>, FileScheme }

\* C18 (as claimed): no returned string starts with data:, and the scheme of
\* every returned string is http, https, ftp or file.
C18_NoDataUri ==
    upc = "returned" =>
        \A k \in 1..Len(uresult) :
            /\ LitAt(uresult[k], 1, DataPrefix) = NoMatch
            /\ ParsedScheme(uresult[k]) \in UrlSchemes

\* C18 (amended): a returned string that starts with data: has // and a
\* non-empty authority after it, a data: match without them is not returned,
\* and the scheme of every returned string is http, https, ftp, file or data
\* unless the string starts with www.
C18_DataNeedsAuthority ==
    upc = "returned" =>
        /\ \A k \in 1..Len(uresult) :
              /\ LitAt(uresult[k], 1, DataPrefix) # NoMatch =>
                    /\ StartsWith(AfterScheme(uresult[k]), <<"/", "/">>)
                    /\ ParsedNetloc(uresult[k]) # <<>>
              /\ \/ ParsedScheme(uresult[k]) \in UrlSchemes \cup {<<"d", "a", "t", "a">>}
                 \/ LitAt(uresult[k], 1, <<"w", "w", "w", ".">>) # NoMatch
        /\ \A m \in Range(umatches) :
              (LitAt(m, 1, DataPrefix) # NoMatch /\ ParsedNetloc(m) = <<>>)
                  => m \notin Range(uresult)

\* a text whose one match is data: with // and an authority and a path after
\* it, returned as it is
C18_Witness ==
    /\ upc = "returned"
    /\ LET matches == umatches
       IN  /\ Len(matches) = 1
           /\ LitAt(matches[1], 1, DataPrefix) # NoMatch
           /\ ParsedNetloc(matches[1]) = <<"x">>
           /\ Len(matches[1]) > 8
           /\ uresult = matches

====
